---- MODULE Spec2Model ----
(***************************************************************************)
(* Variable elimination on a discrete Bayesian network                     *)
(* (src/Python/variable_elim.py, class VariableElimination).               *)
(*                                                                         *)
(* A pandas DataFrame holding a factor is a record [cols, tab]: cols is    *)
(* the set of its columns other than 'prob', tab maps each row (a function *)
(* from cols to values) to the row's prob.  Probabilities are exact        *)
(* rationals [num, den] in lowest terms; [num |-> 0, den |-> 0] is NaN,    *)
(* the value 0.0/0.0 takes in numpy.                                       *)
(***************************************************************************)
EXTENDS Integers, Sequences, FiniteSets, TLC

VARIABLES
    nodes,               \* network.nodes
    parents,             \* network.parents
    probabilities,       \* network.probabilities: node -> CPT
    pc,                  \* position of the current call of run
    query,               \* run's argument query
    observed,            \* run's argument observed
    heuristic,           \* run's argument heuristic
    remaining_variables, \* elimination_order's local remaining_variables
    elimination_order,   \* the ordering being built, then the one run loops over
    position,            \* how many variables of elimination_order the loop has done
    factors,             \* run's local dict factors, in insertion order
    final_factor,        \* run's local final_factor
    result,              \* what run returned to its caller
    entry_factors,       \* history: factors as copied at the start of STEP 1
    calls                \* number of calls of run made so far

vars == <<nodes, parents, probabilities, pc, query, observed, heuristic,
          remaining_variables, elimination_order, position, factors,
          final_factor, result, entry_factors, calls>>

(* Bounds of the model *)
MaxCalls == 2
MaxEvidence == 1

----------------------------------------------------------------------------
(* Exact arithmetic on the prob column *)

RECURSIVE Gcd(_, _)
Gcd(a, b) == IF b = 0 THEN a ELSE Gcd(b, a % b)

NaN == [num |-> 0, den |-> 0]

Frac(n, d) ==
    IF d = 0 THEN NaN
    ELSE LET g == Gcd(n, d) IN [num |-> n \div g, den |-> d \div g]

ProbMul(x, y) == Frac(x.num * y.num, x.den * y.den)

ProbAdd(x, y) == Frac(x.num * y.den + y.num * x.den, x.den * y.den)

\* x / y; every prob is non-negative, so a zero divisor is a sum of zeros
\* and the quotient is 0.0/0.0
ProbDiv(x, y) == Frac(x.num * y.den, x.den * y.num)

Zero == Frac(0, 1)

----------------------------------------------------------------------------
(* Tables *)

Restrict(f, S) == [x \in S |-> f[x]]

\* Series.sum() of the prob of the rows in R
RECURSIVE SumProb(_, _)
SumProb(R, tab) ==
    IF R = {} THEN Zero
    ELSE LET r == CHOOSE x \in R : TRUE
         IN  ProbAdd(tab[r], SumProb(R \ {r}, tab))

Rows(df) == DOMAIN df.tab

\* a variant that filters the rows and forgets .drop(columns=[var])
EvidenceReduction_KeepColumn(df, var, value) ==
    [cols |-> df.cols,
     tab  |-> [r \in {k \in Rows(df) : k[var] = value} |-> df.tab[r]]]

\* df[df[var] == value].drop(columns=[var])
EvidenceReduction(df, var, value) ==
    LET kept == {r \in Rows(df) : r[var] = value}
        rest == df.cols \ {var}
    IN  [cols |-> rest,
         tab  |-> [r \in {Restrict(k, rest) : k \in kept} |->
                     df.tab[CHOOSE k \in kept : Restrict(k, rest) = r]]]

\* the inner loop of simplification for one item (var, value) of observed
ReduceAll(probs, var, value) ==
    [key \in DOMAIN probs |->
        IF var \in probs[key].cols
        THEN EvidenceReduction(probs[key], var, value)
        ELSE probs[key]]

RECURSIVE simplification(_, _)
simplification(probs, obs) ==
    IF DOMAIN obs = {} THEN probs
    ELSE LET var == CHOOSE v \in DOMAIN obs : TRUE
         IN  simplification(ReduceAll(probs, var, obs[var]),
                            Restrict(obs, DOMAIN obs \ {var}))

\* a variant that keeps prob_x as prob instead of prob_x * prob_y
multiplication_LeftProb(df1, df2) ==
    LET common_vars == df1.cols \cap df2.cols
        pairs == {p \in Rows(df1) \X Rows(df2) :
                    \A c \in common_vars : p[1][c] = p[2][c]}
        merged == df1.cols \cup df2.cols
        Row(p) == [c \in merged |-> IF c \in df1.cols THEN p[1][c] ELSE p[2][c]]
    IN  [cols |-> merged,
         tab  |-> [r \in {Row(p) : p \in pairs} |->
                     df1.tab[Restrict(r, df1.cols)]]]

\* pd.merge on the common columns (on a constant dummy column when there is
\* none, which pairs every row with every row), prob = prob_x * prob_y
multiplication(df1, df2) ==
    LET common_vars == df1.cols \cap df2.cols
        pairs == {p \in Rows(df1) \X Rows(df2) :
                    \A c \in common_vars : p[1][c] = p[2][c]}
        merged == df1.cols \cup df2.cols
        Row(p) == [c \in merged |-> IF c \in df1.cols THEN p[1][c] ELSE p[2][c]]
    IN  [cols |-> merged,
         tab  |-> [r \in {Row(p) : p \in pairs} |->
                     ProbMul(df1.tab[Restrict(r, df1.cols)],
                             df2.tab[Restrict(r, df2.cols)])]]

\* factor.groupby(remaining_vars) with no group key on a frame that has rows
\* raises ValueError("No group keys passed!")
SumOutRaises(variable, factor) ==
    /\ factor.cols \ {variable} = {}
    /\ Rows(factor) /= {}

\* factor.groupby(remaining_vars)['prob'].sum().reset_index()
sum_out(variable, factor) ==
    LET remaining_vars == factor.cols \ {variable}
        groups == {Restrict(r, remaining_vars) : r \in Rows(factor)}
    IN  [cols |-> remaining_vars,
         tab  |-> [g \in groups |->
                     SumProb({r \in Rows(factor) : Restrict(r, remaining_vars) = g},
                             factor.tab)]]

----------------------------------------------------------------------------
(* The network handed to VariableElimination(network) *)

NodeOrder == <<"A", "B", "C", "D">>

Idx(v) == CHOOSE i \in 1..Len(NodeOrder) : NodeOrder[i] = v

Values == {"True", "False"}

NoParents == [v \in {"A", "B", "C", "D"} |-> {}]

\* the node sets and arcs the engine is run on; offset varies the CPT entries
Networks ==
    { [nodes |-> {"A"}, offset |-> 1,
       parents |-> NoParents],
      [nodes |-> {"A", "B"}, offset |-> 0,
       parents |-> [NoParents EXCEPT !["B"] = {"A"}]],
      [nodes |-> {"A", "B", "C"}, offset |-> 0,
       parents |-> [NoParents EXCEPT !["B"] = {"A"}, !["C"] = {"B"}]],
      [nodes |-> {"A", "B", "C"}, offset |-> 1,
       parents |-> [NoParents EXCEPT !["C"] = {"A", "B"}]],
      [nodes |-> {"A", "B", "C"}, offset |-> 2,
       parents |-> [NoParents EXCEPT !["B"] = {"A"}]] }

\* a denser network on four nodes
LargeNetworks ==
    { [nodes |-> {"A", "B", "C", "D"}, offset |-> 1,
       parents |-> [NoParents EXCEPT !["B"] = {"A"}, !["C"] = {"A", "B"},
                                     !["D"] = {"B", "C"}]] }

\* numerator over 4 of P(v = True | the parents' values in row r)
Weight(v, pa, offset, r) ==
    (Idx(v) - 1 + offset + 2 * Cardinality({p \in pa : r[p] = "True"})) % 5

\* the CPT of v: columns v and its parents, one row per joint assignment,
\* the two rows of each parent assignment adding up to 1
CPT(v, pa, offset) ==
    [cols |-> {v} \cup pa,
     tab  |-> [r \in [{v} \cup pa -> Values] |->
                 IF r[v] = "True"
                 THEN Frac(Weight(v, pa, offset, r), 4)
                 ELSE Frac(4 - Weight(v, pa, offset, r), 4)]]

----------------------------------------------------------------------------
(* Arguments of run *)

HeuristicNames ==
    {"random", "min-size", "least-incoming-arcs", "outgoing-arcs-first",
     "min-weight", "fewest-factors", "no-such-heuristic"}

Named(name) == [kind |-> "name", name |-> name, list |-> <<>>]

Literal(list) == [kind |-> "list", name |-> "", list |-> list]

InOrder(S) == SelectSeq(NodeOrder, LAMBDA v : v \in S)

\* a heuristic name, or a precomputed ordering of the unobserved nodes
Heuristics(nds, obs) ==
    {Named(n) : n \in HeuristicNames}
      \cup {Literal(InOrder(nds \ DOMAIN obs))}

\* evidence on at most MaxEvidence nodes, each with one of its values
Evidence(nds) ==
    UNION {[S -> Values] : S \in {T \in SUBSET nds : Cardinality(T) <= MaxEvidence}}

\* heuristic == name: a list never equals a string
Is(h, name) == h.kind = "name" /\ h.name = name

----------------------------------------------------------------------------
(* elimination_order: the choice of the next variable *)

ArgMin(S, Score(_)) == {v \in S : \A w \in S : Score(v) <= Score(w)}

ArgMax(S, Score(_)) == {v \in S : \A w \in S : Score(v) >= Score(w)}

\* len(self.network.probabilities[var])
TableSize(probs, var) == Cardinality(Rows(probs[var]))

IncomingArcs(pars, var) == Cardinality(pars[var])

OutgoingArcs(nds, pars, var) == Cardinality({child \in nds : var \in pars[child]})

\* a variant that counts the tables that do not contain var
FactorCount_Without(probs, var) ==
    Cardinality({key \in DOMAIN probs : var \notin probs[key].cols})

FactorCount(probs, var) == Cardinality({key \in DOMAIN probs : var \in probs[key].cols})

\* the values var can take in one pass of the while loop; min and max over a
\* set return whichever extremum the set's iteration meets first
Choices(h, remaining, nds, pars, probs) ==
    IF Is(h, "random") THEN remaining
    ELSE IF Is(h, "min-size")
         THEN ArgMin(remaining, LAMBDA v : TableSize(probs, v))
    ELSE IF Is(h, "least-incoming-arcs")
         THEN ArgMin(remaining, LAMBDA v : IncomingArcs(pars, v))
    ELSE IF Is(h, "outgoing-arcs-first")
         THEN ArgMax(remaining, LAMBDA v : OutgoingArcs(nds, pars, v))
    ELSE IF Is(h, "min-weight")
         THEN ArgMin(remaining, LAMBDA v : TableSize(probs, v))
    ELSE IF Is(h, "fewest-factors")
         THEN ArgMin(remaining, LAMBDA v : FactorCount(probs, v))
    ELSE remaining

\* a variant that leaves the query in the ordering
WithoutQuery_Kept(order, q) == order

\* elimination_order = [var for var in elimination_order if var != query]
WithoutQuery(order, q) == SelectSeq(order, LAMBDA v : v /= q)

----------------------------------------------------------------------------
(* run: the steps on the working dict *)

\* self.network.probabilities.copy(): the same tables under the same keys
CopyOf(probs, nds) ==
    LET keys == InOrder(nds)
    IN  [i \in 1..Len(keys) |-> [key |-> keys[i], df |-> probs[keys[i]]]]

ReducedKey(var) == "reduced_" \o var

Related(fs, var) == SelectSeq(fs, LAMBDA e : var \in e.df.cols)

RECURSIVE MultiplyAll(_, _)
MultiplyAll(acc, fs) ==
    IF fs = <<>> THEN acc
    ELSE MultiplyAll(multiplication(acc, Head(fs).df), Tail(fs))

Combined(fs, var) ==
    LET related_factors == Related(fs, var)
    IN  MultiplyAll(Head(related_factors).df, Tail(related_factors))

\* factors[key] = df
DictSet(fs, key, df) ==
    IF \E i \in 1..Len(fs) : fs[i].key = key
    THEN [i \in 1..Len(fs) |-> IF fs[i].key = key THEN [key |-> key, df |-> df]
                                ELSE fs[i]]
    ELSE Append(fs, [key |-> key, df |-> df])

\* one pass of the loop of STEP 1
EliminateVar(fs, var) ==
    IF Related(fs, var) = <<>> THEN [raised |-> FALSE, factors |-> fs]
    ELSE IF SumOutRaises(var, Combined(fs, var))
         THEN [raised |-> TRUE, factors |-> fs]
    ELSE [raised |-> FALSE,
          factors |-> DictSet(SelectSeq(fs, LAMBDA e : var \notin e.df.cols),
                              ReducedKey(var), sum_out(var, Combined(fs, var)))]

\* STEP 2
FinalProduct(fs) == MultiplyAll(Head(fs).df, Tail(fs))

\* STEP 3
RECURSIVE RemoveExtra(_, _, _)
RemoveExtra(df, q, obs) ==
    LET extra_vars == df.cols \ {q}
    IN  IF extra_vars = {} THEN [raised |-> FALSE, df |-> df]
        ELSE LET var == CHOOSE v \in extra_vars : TRUE
             IN  IF var \in DOMAIN obs
                 THEN RemoveExtra(EvidenceReduction(df, var, obs[var]), q, obs)
                 ELSE IF SumOutRaises(var, df) THEN [raised |-> TRUE, df |-> df]
                 ELSE RemoveExtra(sum_out(var, df), q, obs)

\* STEP 4: final_factor['prob'] /= final_factor['prob'].sum()
Normalized(df) ==
    LET total == SumProb(Rows(df), df.tab)
    IN  [cols |-> df.cols, tab |-> [r \in Rows(df) |-> ProbDiv(df.tab[r], total)]]

None == [cols |-> {}, tab |-> <<>>]

NoResult == [kind |-> "none", df |-> None]

----------------------------------------------------------------------------
(* The state machine *)

\* VariableElimination(net), and no call of run in progress
Constructed(net) ==
    /\ nodes = net.nodes
    /\ parents = Restrict(net.parents, net.nodes)
    /\ probabilities = [v \in net.nodes |-> CPT(v, net.parents[v], net.offset)]
    /\ pc = "idle"
    /\ query = ""
    /\ observed = <<>>
    /\ heuristic = Named("")
    /\ remaining_variables = {}
    /\ elimination_order = <<>>
    /\ position = 0
    /\ factors = <<>>
    /\ final_factor = None
    /\ result = NoResult
    /\ entry_factors = <<>>

Init == \E net \in Networks : Constructed(net) /\ calls = 0

\* the four-node network, followed for the last call the model makes: the
\* earlier ones were calls without evidence, which leave its tables alone
InitLarge == \E net \in LargeNetworks : Constructed(net) /\ calls = MaxCalls - 1

\* a call of run, up to the first test of the while loop of elimination_order
Run(q, obs, h) ==
    /\ pc = "idle"
    /\ calls < MaxCalls
    /\ calls' = calls + 1
    /\ query' = q
    /\ observed' = obs
    /\ heuristic' = h
    /\ probabilities' = simplification(probabilities, obs)
    /\ remaining_variables' = nodes \ DOMAIN obs
    /\ elimination_order' = <<>>
    /\ position' = 0
    /\ factors' = <<>>
    /\ final_factor' = None
    /\ result' = NoResult
    /\ entry_factors' = <<>>
    /\ pc' = "ordering"
    /\ UNCHANGED <<nodes, parents>>

\* one pass of the while loop of elimination_order
ChooseNext ==
    /\ pc = "ordering"
    /\ remaining_variables /= {}
    /\ \E var \in Choices(heuristic, remaining_variables, nodes, parents,
                          probabilities) :
         /\ elimination_order' = Append(elimination_order, var)
         /\ remaining_variables' = remaining_variables \ {var}
    /\ UNCHANGED <<nodes, parents, probabilities, pc, query, observed,
                   heuristic, position, factors, final_factor, result,
                   entry_factors, calls>>

\* elimination_order returns; run drops the query and copies the dict
StartElimination ==
    /\ pc = "ordering"
    /\ remaining_variables = {}
    /\ elimination_order' = WithoutQuery(elimination_order, query)
    /\ factors' = CopyOf(probabilities, nodes)
    /\ entry_factors' = CopyOf(probabilities, nodes)
    /\ position' = 0
    /\ pc' = "eliminate"
    /\ UNCHANGED <<nodes, parents, probabilities, query, observed, heuristic,
                   remaining_variables, final_factor, result, calls>>

\* one pass of the loop of STEP 1; the ValueError of sum_out leaves run
Eliminate ==
    /\ pc = "eliminate"
    /\ position < Len(elimination_order)
    /\ LET step == EliminateVar(factors, elimination_order[position + 1])
       IN  IF step.raised
           THEN /\ pc' = "raised"
                /\ result' = [kind |-> "raised", df |-> None]
                /\ UNCHANGED <<position, factors>>
           ELSE /\ position' = position + 1
                /\ factors' = step.factors
                /\ UNCHANGED <<pc, result>>
    /\ UNCHANGED <<nodes, parents, probabilities, query, observed, heuristic,
                   remaining_variables, elimination_order, final_factor,
                   entry_factors, calls>>

\* STEP 2
Combine ==
    /\ pc = "eliminate"
    /\ position = Len(elimination_order)
    /\ final_factor' = FinalProduct(factors)
    /\ pc' = "cleanup"
    /\ UNCHANGED <<nodes, parents, probabilities, query, observed, heuristic,
                   remaining_variables, elimination_order, position, factors,
                   result, entry_factors, calls>>

\* STEP 3
Cleanup ==
    /\ pc = "cleanup"
    /\ LET done == RemoveExtra(final_factor, query, observed)
       IN  IF done.raised
           THEN /\ pc' = "raised"
                /\ result' = [kind |-> "raised", df |-> None]
                /\ UNCHANGED final_factor
           ELSE /\ pc' = "normalize"
                /\ final_factor' = done.df
                /\ UNCHANGED result
    /\ UNCHANGED <<nodes, parents, probabilities, query, observed, heuristic,
                   remaining_variables, elimination_order, position, factors,
                   entry_factors, calls>>

\* the keys of the network's dict whose table is the object final_factor:
\* the single factor left, when it is still a table of the network
AliasedKeys ==
    {k \in nodes : /\ Len(factors) = 1
                   /\ factors[1].key = k
                   /\ final_factor = factors[1].df}

\* STEP 4 and the return; the division writes into the object final_factor
Normalize ==
    /\ pc = "normalize"
    /\ final_factor' = Normalized(final_factor)
    /\ result' = [kind |-> "table", df |-> Normalized(final_factor)]
    /\ probabilities' = [k \in DOMAIN probabilities |->
                           IF k \in AliasedKeys THEN Normalized(final_factor)
                           ELSE probabilities[k]]
    /\ factors' = [i \in 1..Len(factors) |->
                     IF factors[i].key \in AliasedKeys
                     THEN [key |-> factors[i].key, df |-> Normalized(final_factor)]
                     ELSE factors[i]]
    /\ pc' = "returned"
    /\ UNCHANGED <<nodes, parents, query, observed, heuristic,
                   remaining_variables, elimination_order, position,
                   entry_factors, calls>>

\* run has returned or raised: the caller has the outcome, the frame is gone
Leave ==
    /\ pc \in {"returned", "raised"}
    /\ pc' = "idle"
    /\ query' = ""
    /\ observed' = <<>>
    /\ heuristic' = Named("")
    /\ remaining_variables' = {}
    /\ elimination_order' = <<>>
    /\ position' = 0
    /\ factors' = <<>>
    /\ final_factor' = None
    /\ result' = NoResult
    /\ entry_factors' = <<>>
    /\ UNCHANGED <<nodes, parents, probabilities, calls>>

Next ==
    \/ \E q \in nodes : \E obs \in Evidence(nodes) :
         \E h \in Heuristics(nodes, obs) : Run(q, obs, h)
    \/ ChooseNext
    \/ StartElimination
    \/ Eliminate
    \/ Combine
    \/ Cleanup
    \/ Normalize
    \/ Leave

Spec == Init /\ [][Next]_vars

SpecLarge == InitLarge /\ [][Next]_vars

----------------------------------------------------------------------------
(* run from the start of STEP 1 to its outcome, as a function of the ordering *)

RECURSIVE EliminateAll(_, _)
EliminateAll(fs, order) ==
    IF order = <<>> THEN [raised |-> FALSE, factors |-> fs]
    ELSE LET step == EliminateVar(fs, Head(order))
         IN  IF step.raised THEN step
             ELSE EliminateAll(step.factors, Tail(order))

Raised == [kind |-> "raised", df |-> None]

Outcome(fs, order, q, obs) ==
    LET loop == EliminateAll(fs, order)
    IN  IF loop.raised THEN Raised
        ELSE LET done == RemoveExtra(FinalProduct(loop.factors), q, obs)
             IN  IF done.raised THEN Raised
                 ELSE [kind |-> "table", df |-> Normalized(done.df)]

Range(s) == {s[i] : i \in 1..Len(s)}

Reorderings(s) ==
    {t \in [1..Len(s) -> Range(s)] : \A i, j \in 1..Len(s) : t[i] = t[j] => i = j}

One == Frac(1, 1)

InCall == pc \notin {"idle"}

\* the number of tables of the working dict whose columns include var
LiveCount(fs, var) == Cardinality({i \in 1..Len(fs) : var \in fs[i].df.cols})

----------------------------------------------------------------------------
(* The claims *)

\* C1: a call of run leaves network.probabilities exactly as it was: no step
\* of run changes the network's tables.
C1_ProbabilitiesUntouched == [][probabilities' = probabilities]_vars

\* C2: every call of run that returns a table returns a factor over exactly
\* the query variable, with one row per value of the query and prob values
\* that are non-negative and sum to 1.
C2_ResultIsDistribution ==
    pc = "returned" =>
        /\ result.df.cols = {query}
        /\ Rows(result.df) = [{query} -> Values]
        /\ \A r \in Rows(result.df) :
             result.df.tab[r].den > 0 /\ result.df.tab[r].num >= 0
        /\ SumProb(Rows(result.df), result.df.tab) = One

\* C3: run with query X and evidence X = x returns the point mass on x: a
\* table over X with prob 1 at x and 0, or no row, for every other value.
C3_EvidenceDeterminism ==
    (pc \in {"returned", "raised"} /\ query \in DOMAIN observed) =>
        /\ result.kind = "table"
        /\ result.df.cols = {query}
        /\ \A r \in Rows(result.df) :
             result.df.tab[r] = IF r[query] = observed[query] THEN One ELSE Zero
        /\ \E r \in Rows(result.df) : r[query] = observed[query]

\* C4: when the heuristic argument is a literal ordering, the variables are
\* eliminated in exactly the order of that sequence, the query removed.
C4_LiteralOrderingUsed ==
    (pc = "eliminate" /\ heuristic.kind = "list") =>
        elimination_order = WithoutQuery(heuristic.list, query)

\* C5: for a fixed network, query and evidence, every permutation of the
\* variables run eliminated leads run to the same outcome as the ordering it
\* used: the same table, row for row, or the same failure.
C5_OrderingInvariance ==
    pc \in {"returned", "raised"} =>
        \A order \in Reorderings(elimination_order) :
            Outcome(entry_factors, order, query, observed) = result

C5_Witness ==
    /\ pc = "returned"
    /\ Len(elimination_order) >= 2
    /\ \E r \in Rows(result.df) : result.df.tab[r] \notin {Zero, One, NaN}

\* C6: when the total prob of the final factor is zero at the normalization
\* step, run does not return a table obtained by dividing by zero: no
\* returned table holds the quotient 0/0.
C6_ZeroMassReported ==
    pc = "returned" => \A r \in Rows(result.df) : result.df.tab[r] /= NaN

\* C7: an elimination step for a variable whose combined factor has that
\* variable as its whole scope completes without error and leaves one scalar
\* factor, the sum of the combined factor's prob, in the tracked set.
C7_ScalarSumOut ==
    [][(/\ pc = "eliminate"
        /\ position < Len(elimination_order)
        /\ Related(factors, elimination_order[position + 1]) /= <<>>
        /\ Combined(factors, elimination_order[position + 1]).cols
             = {elimination_order[position + 1]})
       => (/\ pc' = "eliminate"
           /\ \E i \in 1..Len(factors') :
                /\ factors'[i].key = ReducedKey(elimination_order[position + 1])
                /\ factors'[i].df.cols = {}
                /\ factors'[i].df.tab[<<>>] =
                     LET c == Combined(factors, elimination_order[position + 1])
                     IN  SumProb(Rows(c), c.tab))]_vars

C9_OrderIsPermutation ==
    /\ pc = "ordering" =>
         /\ Range(elimination_order) \cup remaining_variables
              = nodes \ DOMAIN observed
         /\ Len(elimination_order) + Cardinality(remaining_variables)
              = Cardinality(nodes \ DOMAIN observed)
    /\ pc \in {"eliminate", "cleanup", "normalize", "returned", "raised"} =>
         /\ Range(elimination_order) = (nodes \ DOMAIN observed) \ {query}
         /\ Len(elimination_order) = Cardinality(Range(elimination_order))

C9_Witness ==
    /\ pc = "eliminate"
    /\ heuristic.kind = "name"
    /\ observed /= <<>>
    /\ query \notin DOMAIN observed
    /\ Len(elimination_order) >= 1

\* the number of tables of the network whose columns include var
TablesWith(var) ==
    Cardinality({k \in DOMAIN probabilities : var \in probabilities[k].cols})

\* C10 as stated: under fewest-factors the variable an elimination step takes
\* is, among the variables still to eliminate, one that the fewest tables of
\* the live working dict contain.
C10_LiveFewestFactors ==
    (/\ pc = "eliminate"
     /\ Is(heuristic, "fewest-factors")
     /\ position < Len(elimination_order)) =>
        \A j \in (position + 1)..Len(elimination_order) :
            LiveCount(factors, elimination_order[position + 1])
              <= LiveCount(factors, elimination_order[j])

\* C10 amended: under fewest-factors each variable of the ordering is, among
\* the variables ordered after it and those not yet ordered, one that the
\* fewest tables of the network contain, the tables being the network's as
\* evidence incorporation left them, before any elimination step.
C10_StaticFewestFactors ==
    (pc \in {"ordering", "eliminate"} /\ Is(heuristic, "fewest-factors")) =>
        \A i \in 1..Len(elimination_order) :
            /\ \A j \in i..Len(elimination_order) :
                 TablesWith(elimination_order[i]) <= TablesWith(elimination_order[j])
            /\ \A v \in remaining_variables :
                 TablesWith(elimination_order[i]) <= TablesWith(v)

C10_Witness ==
    /\ pc = "eliminate"
    /\ Is(heuristic, "fewest-factors")
    /\ position >= 1
    /\ Len(elimination_order) >= 3
    /\ TablesWith(elimination_order[1]) < TablesWith(elimination_order[3])

====
